---- MODULE Spec2Model ----
(***************************************************************************)
(* A model of the panoramix reconciliation core: the Element / VirtualDom  *)
(* protocol (build, init_tree, reconcile, process_event,                   *)
(* process_local_event), component state threading and the layout          *)
(* containers, driven by a host that mounts one root element and then runs *)
(* build/reconcile and event passes one at a time.                         *)
(***************************************************************************)
EXTENDS Integers, Sequences, FiniteSets, TLC

VARIABLES
    root,        \* the root element the host renders (fixed after Init)
    mounted,     \* whether init_tree has run
    vdom,        \* the stored VirtualDom node (BuildOutput of the last build)
    state,       \* the aggregate children state carried from build to build
    widget_seq,  \* the native widget sequence
    dom_state,   \* the DomState threaded by init_tree / apply_diff of Row and Column
    host_ctx,    \* the ProcessEventCtx the host hands to the root node
    last,        \* the last host pass: its inputs, what it read and what it returned
    pushed,      \* per component name: every event pushed on its queue, in push order
    delivered,   \* per component name: every event returned by its process_local_event
    n_init       \* how many times init_tree has run

vars == <<root, mounted, vdom, state, widget_seq, dom_state, host_ctx, last, pushed, delivered, n_init>>

----------------------------------------------------------------------------
(* Bounds of the model *)

\* largest value a component's local counter is driven to
MaxCount == 2
\* most events pushed on one component's queue over a run
MaxPushed == 2

----------------------------------------------------------------------------
(* Values *)

\* Option::None for events; NoEvent has no values
NoEv == [tag |-> "None", val |-> 0]

Ev(tag, val) == [tag |-> tag, val |-> val]

\* the unit value (), the state of elements that cross no component boundary
Unit == <<>>

\* a type-erased local state: &dyn Any with the type it was created with
Local(ty, v) == [ty |-> ty, v |-> v]

\* Default::default() of a local-state type (numbers default to 0)
DefaultLocal(ty) == Local(ty, 0)

NoState == Local("NoState", 0)

None == [some |-> FALSE, v |-> NoState]

Some(x) == [some |-> TRUE, v |-> x]

UnwrapOr(opt, d) == IF opt.some THEN opt.v ELSE d

Text(s, n) == [s |-> s, n |-> n]

----------------------------------------------------------------------------
(* Elements *)

EmptyElement == [kind |-> "EmptyElement"]

EmptyElementData == [kind |-> "EmptyElementData"]

EmptySequence == <<>>

\* a leaf element (label, button): one native widget showing `value`
Leaf(id, value) == [kind |-> "Leaf", id |-> id, value |-> value]

\* a tuple of elements, built by make_group!
Group(children) == [kind |-> "Group", children |-> children]

Row(child) == [kind |-> "Row", child |-> child]

RowData(child) == [kind |-> "RowData", child |-> child]

Column(child) == [kind |-> "Column", child |-> child]

ColumnData(child) == [kind |-> "ColumnData", child |-> child]

ComponentOutput(name, ty, child) ==
    [kind |-> "ComponentOutput", child |-> child, name |-> name, ty |-> ty]

ComponentOutputData(name, ty, child) ==
    [kind |-> "ComponentOutputData", child |-> child, name |-> name, ty |-> ty]

ComponentHolder(component_fn, props) ==
    [kind |-> "ComponentHolder", component_fn |-> component_fn, props |-> props]

WithCallbackEvent(sub, callback, element) ==
    [kind |-> "WithCallbackEvent", element |-> element, callback |-> callback, sub |-> sub]

WithMapEvent(sub, callback, element) ==
    [kind |-> "WithMapEvent", element |-> element, callback |-> callback, sub |-> sub]

WithBubbleEvent(sub, element) ==
    [kind |-> "WithBubbleEvent", element |-> element, callback |-> "none", sub |-> sub]

IsWrapper(e) == e.kind \in {"WithCallbackEvent", "WithMapEvent", "WithBubbleEvent"}

IsWrapperData(n) == n.kind \in {"WithCallbackEventData", "WithMapEventData", "WithBubbleEventData"}

----------------------------------------------------------------------------
(* Component functions *)

CompCtx(local_state) == [local_state |-> local_state]

\* a read that answers a mismatched slot with the default of T instead of panicking
UseLocalState_defaults(ctx, T) ==
    [panic |-> FALSE, v |-> IF ctx.local_state.ty = T THEN ctx.local_state.v ELSE 0]

\* downcast_ref::<T>().unwrap(): the value when the slot has type T, a panic otherwise
UseLocalState(ctx, T) ==
    [panic |-> ctx.local_state.ty # T, v |-> ctx.local_state.v]

PanicElement == [kind |-> "Panic"]

\* tests::MyComponent::render
MyComponent_render(ctx, props) ==
    ComponentOutput("MyComponent", "u16", EmptyElement)

\* the StoreItem component of the Element documentation, as #[component] expands it
StoreItem(ctx, item_name) ==
    LET item_count == UseLocalState(ctx, "u32") IN
    IF item_count.panic THEN PanicElement
    ELSE ComponentOutput("StoreItem", "u32",
            Column(Group(<<
                Leaf("label", Text(item_name, item_count.v)),
                WithCallbackEvent("ButtonClick", "increment", Leaf("plus", Text("+", 0))),
                WithBubbleEvent("ButtonClick", Leaf("buy", Text("Buy", 0)))
            >>)))

\* a parent component around one StoreItem; `props` names the wrapper it puts on it
Store(ctx, props) ==
    LET sales == UseLocalState(ctx, "u32")
        item == ComponentHolder("StoreItem", "apple")
        wrapped ==
            CASE props = "on" -> WithCallbackEvent("ButtonClick", "increment", item)
              [] props = "map_some" -> WithMapEvent("ButtonClick", "count_sale", item)
              [] props = "map_none" -> WithMapEvent("ButtonClick", "drop", item)
              [] OTHER -> WithBubbleEvent("ButtonClick", item)
    IN
    IF sales.panic THEN PanicElement
    ELSE ComponentOutput("Store", "u32",
            Row(Group(<<
                Leaf("total", Text("Sales", sales.v)),
                wrapped,
                EmptyElement
            >>)))

\* a hand-written component whose function asks for a u16 while its LocalState and the
\* Metadata of its output say u32
Mistyped(ctx, props) ==
    LET count == UseLocalState(ctx, "u16") IN
    IF count.panic THEN PanicElement
    ELSE ComponentOutput("Mistyped", "u32", Leaf("label", Text("count", count.v)))

\* a hand-written component whose function puts its component output inside a Row;
\* like MyComponent::render it does not read the context. Its button sits under three
\* wrappers: on(ButtonClick) innermost, then on(TextChanged), then bubble_up(ButtonClick)
Framed(ctx, props) ==
    Row(ComponentOutput("Framed", "u32",
            Group(<<
                Leaf("label", Text("frame", 0)),
                WithBubbleEvent("ButtonClick",
                    WithCallbackEvent("TextChanged", "note",
                        WithCallbackEvent("ButtonClick", "increment",
                            Leaf("plus", Text("+", 0)))))
            >>)))

\* (self.component_fn)(&ctx, self.props)
ComponentFn(component_fn, ctx, props) ==
    CASE component_fn = "MyComponent" -> MyComponent_render(ctx, props)
      [] component_fn = "StoreItem" -> StoreItem(ctx, props)
      [] component_fn = "Mistyped" -> Mistyped(ctx, props)
      [] component_fn = "Framed" -> Framed(ctx, props)
      [] OTHER -> Store(ctx, props)

\* Comp::LocalState of each component
LocalState(component_fn) ==
    IF component_fn = "MyComponent" THEN "u16" ELSE "u32"

\* the T a component function passes to use_local_state (MyComponent::render reads none)
Requested(component_fn) ==
    IF component_fn \in {"MyComponent", "Mistyped"} THEN "u16" ELSE "u32"

\* the static type ReturnedTree of a component function: the type of what it returns
\* when it returns
ReturnedTree(component_fn, props) ==
    ComponentFn(component_fn, CompCtx(DefaultLocal(Requested(component_fn))), props)

----------------------------------------------------------------------------
(* Element::build *)

RECURSIVE DefaultState(_)
\* Default::default() of an element's AggregateChildrenState
DefaultState(e) ==
    CASE e.kind = "ComponentOutput" ->
            <<<<>>, DefaultLocal(e.ty), DefaultState(e.child)>>
      [] e.kind = "ComponentHolder" ->
            DefaultState(ReturnedTree(e.component_fn, e.props))
      [] e.kind \in {"Row", "Column"} -> DefaultState(e.child)
      [] IsWrapper(e) -> DefaultState(e.element)
      [] e.kind = "Group" ->
            [i \in 1..Len(e.children) |-> DefaultState(e.children[i])]
      [] OTHER -> Unit

\* Element::get_component_state: None unless the element type overrides it
Element_get_component_state(st) == None

\* ComponentOutput::get_component_state: Some(&state.1)
ComponentOutput_get_component_state(st) == Some(st[2])

\* ReturnedTree::get_component_state, dispatched on the static type of the tree
GetComponentState(tree, st) ==
    IF tree.kind = "ComponentOutput"
    THEN ComponentOutput_get_component_state(st)
    ELSE Element_get_component_state(st)

\* ReturnedTree::ComponentState of an element type
ComponentState(tree) ==
    IF tree.kind = "ComponentOutput" THEN tree.ty ELSE "NoState"

RECURSIVE Build(_, _)

\* EmptyElement::build
EmptyElement_build(self, prev_state) == <<EmptyElementData, Unit>>

\* build of a leaf element: its node carries the value, it keeps no state
Leaf_build(self, prev_state) ==
    <<[kind |-> "LeafData", id |-> self.id, value |-> self.value], Unit>>

\* build of a tuple of elements: each child is built with its own slot
Group_build(self, prev_state) ==
    LET built == [i \in 1..Len(self.children) |-> Build(self.children[i], prev_state[i])]
    IN <<[kind |-> "GroupData", children |-> [i \in 1..Len(built) |-> built[i][1]]],
         [i \in 1..Len(built) |-> built[i][2]]>>

\* a Row that returns the default aggregate state instead of the child's next state
Row_build_defaults(self, prev_state) ==
    <<RowData(Build(self.child, prev_state)[1]), DefaultState(self.child)>>

\* Row::build
Row_build(self, prev_state) ==
    LET built == Build(self.child, prev_state)
        element == built[1]
        component_state == built[2]
    IN <<RowData(element), component_state>>

\* Column::build
Column_build(self, prev_state) ==
    LET built == Build(self.child, prev_state)
        element == built[1]
        component_state == built[2]
    IN <<ColumnData(element), component_state>>

\* a build that carries the pending events over to the next state
ComponentOutput_build_keeps_queue(self, prev_state) ==
    LET built == Build(self.child, prev_state[3])
    IN <<ComponentOutputData(self.name, self.ty, built[1]),
         <<prev_state[1], prev_state[2], built[2]>>>>

\* a build that puts a fresh default in the local slot instead of the previous value
ComponentOutput_build_resets(self, prev_state) ==
    LET built == Build(self.child, prev_state[3])
    IN <<ComponentOutputData(self.name, self.ty, built[1]),
         <<<<>>, DefaultLocal(self.ty), built[2]>>>>

\* ComponentOutput::build
ComponentOutput_build(self, prev_state) ==
    LET prev_local_state == prev_state[2]
        children_prev_state == prev_state[3]
        built == Build(self.child, children_prev_state)
        child == built[1]
        children_state == built[2]
    IN <<ComponentOutputData(self.name, self.ty, child),
         <<<<>>, prev_local_state, children_state>>>>

\* the local_state of ComponentHolder::build: what the component function is handed
ComponentHolder_local_state(self, prev_state) ==
    LET tree_type == ReturnedTree(self.component_fn, self.props)
        default_state == DefaultLocal(ComponentState(tree_type))
    IN UnwrapOr(GetComponentState(tree_type, prev_state), default_state)

\* a holder that builds the returned tree on a fresh default state
ComponentHolder_build_fresh(self, prev_state) ==
    LET ctx == CompCtx(ComponentHolder_local_state(self, prev_state))
        element_tree == ComponentFn(self.component_fn, ctx, self.props)
    IN Build(element_tree, DefaultState(element_tree))

\* ComponentHolder::build
ComponentHolder_build(self, prev_state) ==
    LET local_state == ComponentHolder_local_state(self, prev_state)
        ctx == CompCtx(local_state)
        element_tree == ComponentFn(self.component_fn, ctx, self.props)
    IN Build(element_tree, prev_state)

\* build of the event wrappers: the child is built, the state is the child's
WithEvent_build(self, prev_state) ==
    LET built == Build(self.element, prev_state)
    IN <<[kind |-> self.kind \o "Data", element |-> built[1],
          callback |-> self.callback, sub |-> self.sub],
         built[2]>>

\* Element::build, dispatched on the element type
Build(e, prev_state) ==
    CASE e.kind = "EmptyElement" -> EmptyElement_build(e, prev_state)
      [] e.kind = "Leaf" -> Leaf_build(e, prev_state)
      [] e.kind = "Group" -> Group_build(e, prev_state)
      [] e.kind = "Row" -> Row_build(e, prev_state)
      [] e.kind = "Column" -> Column_build(e, prev_state)
      [] e.kind = "ComponentOutput" -> ComponentOutput_build(e, prev_state)
      [] e.kind = "ComponentHolder" -> ComponentHolder_build(e, prev_state)
      [] IsWrapper(e) -> WithEvent_build(e, prev_state)
      [] OTHER -> <<e, prev_state>>

----------------------------------------------------------------------------
(* VirtualDom::init_tree *)

\* the result of a reconcile / apply_diff: the widget sequence and DomState it leaves,
\* and the ids of the native widgets it wrote to
Diffed(ws, dom, touched) == [widget_seq |-> ws, dom_state |-> dom, touched |-> touched]

Flex(direction, cross_alignment, main_alignment, fill_major_axis, children_seq) ==
    [direction |-> direction, cross_alignment |-> cross_alignment,
     main_alignment |-> main_alignment, fill_major_axis |-> fill_major_axis,
     children_seq |-> children_seq]

\* SingleWidget::new(widget): a widget sequence of exactly one widget
SingleWidget(widget) == <<widget>>

RECURSIVE InitTree(_)

\* an empty element mounted as a blank widget instead of as no widget
EmptyElementData_init_tree_blank(self) ==
    <<SingleWidget([id |-> "empty", value |-> Text("", 0)]), Unit>>

\* EmptyElementData::init_tree
EmptyElementData_init_tree(self) == <<EmptySequence, Unit>>

\* init_tree of a leaf: one native widget showing the node's value
LeafData_init_tree(self) ==
    <<SingleWidget([id |-> self.id, value |-> self.value]), Unit>>

\* init_tree of a tuple: the children's widget sequences, in order
GroupData_init_tree(self) ==
    LET made == [i \in 1..Len(self.children) |-> InitTree(self.children[i])]
    IN <<[i \in 1..Len(made) |-> made[i][1]], [i \in 1..Len(made) |-> made[i][2]]>>

\* RowData::init_tree
RowData_init_tree(self) ==
    LET made == InitTree(self.child)
        widget_seq_ == made[1]
        dom_state_ == made[2]
        flex == Flex("Horizontal", "Center", "Start", FALSE, widget_seq_)
    IN <<SingleWidget(flex), dom_state_>>

\* a Column mounted with the direction of a Row
ColumnData_init_tree_horizontal(self) ==
    LET made == InitTree(self.child)
    IN <<SingleWidget(Flex("Horizontal", "Center", "Start", FALSE, made[1])), made[2]>>

\* ColumnData::init_tree
ColumnData_init_tree(self) ==
    LET made == InitTree(self.child)
        widget_seq_ == made[1]
        dom_state_ == made[2]
        flex == Flex("Vertical", "Center", "Start", FALSE, widget_seq_)
    IN <<SingleWidget(flex), dom_state_>>

\* a component that mounts a container widget of its own around its child's widgets
ComponentOutputData_init_tree_wraps(self) ==
    LET made == InitTree(self.child)
    IN <<SingleWidget(Flex("Vertical", "Center", "Start", FALSE, made[1])), made[2]>>

\* ComponentOutputData::init_tree
ComponentOutputData_init_tree(self) == InitTree(self.child)

\* init_tree of the event wrappers: the child's widgets
WithEventData_init_tree(self) == InitTree(self.element)

\* VirtualDom::init_tree, dispatched on the node type
InitTree(n) ==
    CASE n.kind = "EmptyElementData" -> EmptyElementData_init_tree(n)
      [] n.kind = "LeafData" -> LeafData_init_tree(n)
      [] n.kind = "GroupData" -> GroupData_init_tree(n)
      [] n.kind = "RowData" -> RowData_init_tree(n)
      [] n.kind = "ColumnData" -> ColumnData_init_tree(n)
      [] n.kind = "ComponentOutputData" -> ComponentOutputData_init_tree(n)
      [] OTHER -> WithEventData_init_tree(n)

----------------------------------------------------------------------------
(* VirtualDom::reconcile / apply_diff: self is the new node, other the previous one *)

RECURSIVE Reconcile(_, _, _, _)

\* EmptyElementData::reconcile: an empty body
EmptyElementData_reconcile(self, other, prev_state, widget) ==
    Diffed(widget, prev_state, {})

\* reconcile of a leaf: the widget is written only when the value changed
LeafData_reconcile(self, other, prev_state, widget) ==
    IF self.value # other.value
    THEN Diffed(SingleWidget([widget[1] EXCEPT !.value = self.value]), prev_state, {widget[1].id})
    ELSE Diffed(widget, prev_state, {})

\* reconcile of a tuple: each child against the previous child on its own widgets
GroupData_reconcile(self, other, prev_state, widget) ==
    LET d == [i \in 1..Len(self.children) |->
                Reconcile(self.children[i], other.children[i], prev_state[i], widget[i])]
    IN Diffed([i \in 1..Len(d) |-> d[i].widget_seq],
              [i \in 1..Len(d) |-> d[i].dom_state],
              UNION {d[i].touched : i \in 1..Len(d)})

\* an apply_diff that does not go into the child
RowData_apply_diff_skips(self, other, prev_state, widget) ==
    Diffed(widget, prev_state, {})

\* RowData::apply_diff
RowData_apply_diff(self, other, prev_state, widget) ==
    LET d == Reconcile(self.child, other.child, prev_state, widget[1].children_seq)
    IN Diffed(SingleWidget([widget[1] EXCEPT !.children_seq = d.widget_seq]),
              d.dom_state, d.touched)

\* ColumnData::apply_diff
ColumnData_apply_diff(self, other, prev_state, widget) ==
    LET d == Reconcile(self.child, other.child, prev_state, widget[1].children_seq)
    IN Diffed(SingleWidget([widget[1] EXCEPT !.children_seq = d.widget_seq]),
              d.dom_state, d.touched)

\* ComponentOutputData::reconcile
ComponentOutputData_reconcile(self, other, prev_state, widget) ==
    Reconcile(self.child, other.child, prev_state, widget)

\* reconcile of the event wrappers: the child against the previous child
WithEventData_reconcile(self, other, prev_state, widget) ==
    Reconcile(self.element, other.element, prev_state, widget)

\* VirtualDom::reconcile, dispatched on the node type
Reconcile(n, other, prev_state, widget) ==
    CASE n.kind = "EmptyElementData" -> EmptyElementData_reconcile(n, other, prev_state, widget)
      [] n.kind = "LeafData" -> LeafData_reconcile(n, other, prev_state, widget)
      [] n.kind = "GroupData" -> GroupData_reconcile(n, other, prev_state, widget)
      [] n.kind = "RowData" -> RowData_apply_diff(n, other, prev_state, widget)
      [] n.kind = "ColumnData" -> ColumnData_apply_diff(n, other, prev_state, widget)
      [] n.kind = "ComponentOutputData" -> ComponentOutputData_reconcile(n, other, prev_state, widget)
      [] OTHER -> WithEventData_reconcile(n, other, prev_state, widget)

\* an update_value that keeps the stored node
UpdateValue_keeps(self, other) == self

\* VirtualDom::update_value: *self = other
UpdateValue(self, other) == other

----------------------------------------------------------------------------
(* VirtualDom::process_local_event and process_event *)

ProcessEventCtx(event_queue, st) == [event_queue |-> event_queue, state |-> st]

\* what process_local_event hands back: the event (or None), the children state it
\* leaves, and a record of the deliveries it made
Polled(ev, children_state, trace) ==
    [ev |-> ev, children_state |-> children_state, trace |-> trace]

\* what process_event leaves behind: the two fields of comp_ctx, the children state,
\* the widget sequence, the value it returns, and a record of what happened in order
Processed(event_queue, st, children_state, ws, ret, trace) ==
    [event_queue |-> event_queue, state |-> st, children_state |-> children_state,
     widget_seq |-> ws, ret |-> ret, trace |-> trace]

Entry(act, who, ev) == [act |-> act, who |-> who, ev |-> ev]

\* ParentEvent::into_child_event: the event when it is of the declared sub-type
IntoChildEvent(ev, sub) == IF ev.tag = sub THEN ev ELSE NoEv

\* the closures handed to on and map_event: the state they leave and what they return
Callback(callback, st, ev) ==
    CASE callback = "increment" -> [state |-> [st EXCEPT !.v = @ + 1], out |-> NoEv]
      [] callback = "count_sale" ->
            [state |-> [st EXCEPT !.v = @ + 1], out |-> Ev("Sale", ev.val)]
      [] OTHER -> [state |-> st, out |-> NoEv]

RECURSIVE ProcessLocalEvent(_, _, _, _)

\* VirtualDom::process_local_event, the default body: None
VirtualDom_process_local_event(self, children_state, ws, cx) ==
    Polled(NoEv, children_state, <<>>)

\* a component that keeps the default body: it never hands an event up
ComponentOutputData_process_local_event_none(self, children_state, ws, cx) ==
    Polled(NoEv, children_state, <<>>)

\* a queue drained from the front: the oldest event first
ComponentOutputData_process_local_event_fifo(self, children_state, ws, cx) ==
    LET event_queue == children_state[1] IN
    IF Len(event_queue) = 0
    THEN Polled(NoEv, children_state, <<>>)
    ELSE Polled(Head(event_queue),
                <<Tail(event_queue), children_state[2], children_state[3]>>,
                <<Entry("deliver", self.name, Head(event_queue))>>)

\* ComponentOutputData::process_local_event: event_queue.pop()
ComponentOutputData_process_local_event(self, children_state, ws, cx) ==
    LET event_queue == children_state[1] IN
    IF Len(event_queue) = 0
    THEN Polled(NoEv, children_state, <<>>)
    ELSE Polled(event_queue[Len(event_queue)],
                <<SubSeq(event_queue, 1, Len(event_queue) - 1),
                  children_state[2], children_state[3]>>,
                <<Entry("deliver", self.name, event_queue[Len(event_queue)])>>)

\* process_local_event of a leaf: the event the host input holds for its widget
LeafData_process_local_event(self, children_state, ws, cx) ==
    Polled(IF self.id \in DOMAIN cx THEN cx[self.id] ELSE NoEv, children_state, <<>>)

\* process_local_event of the event wrappers: an event of the declared sub-type was
\* consumed by the wrapper, any other event of the child passes through
WithEventData_process_local_event(self, children_state, ws, cx) ==
    LET l == ProcessLocalEvent(self.element, children_state, ws, cx) IN
    IF IntoChildEvent(l.ev, self.sub) # NoEv
    THEN Polled(NoEv, l.children_state, l.trace)
    ELSE l

\* VirtualDom::process_local_event, dispatched on the node type
ProcessLocalEvent(n, children_state, ws, cx) ==
    CASE n.kind = "ComponentOutputData" ->
            ComponentOutputData_process_local_event(n, children_state, ws, cx)
      [] n.kind = "LeafData" -> LeafData_process_local_event(n, children_state, ws, cx)
      [] IsWrapperData(n) -> WithEventData_process_local_event(n, children_state, ws, cx)
      [] OTHER -> VirtualDom_process_local_event(n, children_state, ws, cx)

RECURSIVE ProcessEvent(_, _, _, _, _)

\* a default body that puts an event on the enclosing component's queue
VirtualDom_process_event_emits(self, comp_ctx, children_state, ws, cx) ==
    Processed(Append(comp_ctx.event_queue, Ev("TextChanged", 1)), comp_ctx.state,
              children_state, ws, NoEv, <<>>)

\* VirtualDom::process_event, the default body: nothing
VirtualDom_process_event(self, comp_ctx, children_state, ws, cx) ==
    Processed(comp_ctx.event_queue, comp_ctx.state, children_state, ws, NoEv, <<>>)

\* RowData::process_event
RowData_process_event(self, explicit_state, children_state, dom, cx) ==
    ProcessEvent(self.child, explicit_state, children_state, dom, cx)

\* a Column that keeps the default body of process_event: it does nothing
ColumnData_process_event_default(self, explicit_state, children_state, dom, cx) ==
    Processed(explicit_state.event_queue, explicit_state.state, children_state, dom,
              NoEv, <<>>)

\* ColumnData::process_event
ColumnData_process_event(self, explicit_state, children_state, dom, cx) ==
    ProcessEvent(self.child, explicit_state, children_state, dom, cx)

\* the pushes of a pass that went on this component's queue get its name
Owned(trace, name) ==
    [i \in 1..Len(trace) |->
        IF trace[i].who = "?" THEN [trace[i] EXCEPT !.who = name] ELSE trace[i]]

\* a component that does not go into its child
ComponentOutputData_process_event_skips_child(self, comp_ctx, children_state, ws, cx) ==
    Processed(comp_ctx.event_queue, comp_ctx.state, children_state, ws, NoEv, <<>>)

\* a component that hands its child the enclosing event queue with its own state
ComponentOutputData_process_event_leaks_queue(self, comp_ctx, children_state, ws, cx) ==
    LET ctx == ProcessEventCtx(comp_ctx.event_queue, children_state[2])
        r == ProcessEvent(self.child, ctx, children_state[3], ws, cx)
    IN Processed(r.event_queue, comp_ctx.state,
                 <<children_state[1], r.state, r.children_state>>,
                 r.widget_seq, NoEv, Owned(r.trace, self.name))

\* a component that hands its child the enclosing comp_ctx instead of its own slots
ComponentOutputData_process_event_shares_ctx(self, comp_ctx, children_state, ws, cx) ==
    LET r == ProcessEvent(self.child, comp_ctx, children_state[3], ws, cx)
    IN Processed(r.event_queue, r.state,
                 <<children_state[1], children_state[2], r.children_state>>,
                 r.widget_seq, NoEv, r.trace)

\* a component that hands its child a copy of its local state and drops the copy
ComponentOutputData_process_event_copies_state(self, comp_ctx, children_state, ws, cx) ==
    LET ctx == ProcessEventCtx(children_state[1], children_state[2])
        r == ProcessEvent(self.child, ctx, children_state[3], ws, cx)
    IN Processed(comp_ctx.event_queue, comp_ctx.state,
                 <<r.event_queue, children_state[2], r.children_state>>,
                 r.widget_seq, NoEv, Owned(r.trace, self.name))

\* ComponentOutputData::process_event
ComponentOutputData_process_event(self, comp_ctx, children_state, ws, cx) ==
    LET ctx == ProcessEventCtx(children_state[1], children_state[2])
        r == ProcessEvent(self.child, ctx, children_state[3], ws, cx)
    IN Processed(comp_ctx.event_queue, comp_ctx.state,
                 <<r.event_queue, r.state, r.children_state>>,
                 r.widget_seq, NoEv, Owned(r.trace, self.name))

RECURSIVE GroupData_fold(_, _, _, _)
\* process_event of a tuple, children 1..i done in order on the same comp_ctx
GroupData_fold(self, acc, i, cx) ==
    IF i > Len(self.children) THEN acc
    ELSE LET r == ProcessEvent(self.children[i],
                               ProcessEventCtx(acc.event_queue, acc.state),
                               acc.children_state[i], acc.widget_seq, cx)
         IN GroupData_fold(self,
                Processed(r.event_queue, r.state,
                          [acc.children_state EXCEPT ![i] = r.children_state],
                          r.widget_seq, NoEv, acc.trace \o r.trace),
                i + 1, cx)

\* process_event of a tuple of nodes
GroupData_process_event(self, comp_ctx, children_state, ws, cx) ==
    GroupData_fold(self,
        Processed(comp_ctx.event_queue, comp_ctx.state, children_state, ws, NoEv, <<>>),
        1, cx)

\* process_event of on: the child first, then the closure on a matching event
WithCallbackEventData_process_event(self, comp_ctx, children_state, ws, cx) ==
    LET r == ProcessEvent(self.element, comp_ctx, children_state, ws, cx)
        l == ProcessLocalEvent(self.element, r.children_state, r.widget_seq, cx)
        ev == IntoChildEvent(l.ev, self.sub)
    IN IF ev = NoEv
       THEN Processed(r.event_queue, r.state, l.children_state, r.widget_seq, NoEv,
                      r.trace \o l.trace)
       ELSE Processed(r.event_queue, Callback(self.callback, r.state, ev).state,
                      l.children_state, r.widget_seq, NoEv,
                      r.trace \o l.trace \o <<Entry("callback", self.callback, ev)>>)

\* process_event of map_event: the child first, then the closure; Some(e) is pushed
WithMapEventData_process_event(self, comp_ctx, children_state, ws, cx) ==
    LET r == ProcessEvent(self.element, comp_ctx, children_state, ws, cx)
        l == ProcessLocalEvent(self.element, r.children_state, r.widget_seq, cx)
        ev == IntoChildEvent(l.ev, self.sub)
        c == Callback(self.callback, r.state, ev)
    IN IF ev = NoEv
       THEN Processed(r.event_queue, r.state, l.children_state, r.widget_seq, NoEv,
                      r.trace \o l.trace)
       ELSE Processed(IF c.out = NoEv THEN r.event_queue ELSE Append(r.event_queue, c.out),
                      c.state, l.children_state, r.widget_seq, NoEv,
                      r.trace \o l.trace \o <<Entry("callback", self.callback, ev)>>
                        \o (IF c.out = NoEv THEN <<>> ELSE <<Entry("push", "?", c.out)>>))

\* process_event of bubble_up: the child first, then a matching event is pushed as it is
WithBubbleEventData_process_event(self, comp_ctx, children_state, ws, cx) ==
    LET r == ProcessEvent(self.element, comp_ctx, children_state, ws, cx)
        l == ProcessLocalEvent(self.element, r.children_state, r.widget_seq, cx)
        ev == IntoChildEvent(l.ev, self.sub)
    IN IF ev = NoEv
       THEN Processed(r.event_queue, r.state, l.children_state, r.widget_seq, NoEv,
                      r.trace \o l.trace)
       ELSE Processed(Append(r.event_queue, ev), r.state, l.children_state,
                      r.widget_seq, NoEv,
                      r.trace \o l.trace \o <<Entry("push", "?", ev)>>)

\* VirtualDom::process_event, dispatched on the node type
ProcessEvent(n, comp_ctx, children_state, ws, cx) ==
    CASE n.kind = "RowData" -> RowData_process_event(n, comp_ctx, children_state, ws, cx)
      [] n.kind = "ColumnData" -> ColumnData_process_event(n, comp_ctx, children_state, ws, cx)
      [] n.kind = "ComponentOutputData" ->
            ComponentOutputData_process_event(n, comp_ctx, children_state, ws, cx)
      [] n.kind = "GroupData" -> GroupData_process_event(n, comp_ctx, children_state, ws, cx)
      [] n.kind = "WithCallbackEventData" ->
            WithCallbackEventData_process_event(n, comp_ctx, children_state, ws, cx)
      [] n.kind = "WithMapEventData" ->
            WithMapEventData_process_event(n, comp_ctx, children_state, ws, cx)
      [] n.kind = "WithBubbleEventData" ->
            WithBubbleEventData_process_event(n, comp_ctx, children_state, ws, cx)
      [] OTHER -> VirtualDom_process_event(n, comp_ctx, children_state, ws, cx)

----------------------------------------------------------------------------
(* The host: one root element, one pass at a time *)

\* the widgets the host can deliver an input to
Buttons == {"plus", "buy"}

\* the payloads an event carries
Payloads == {1, 2}

\* the events a native widget can raise
Events == {Ev("ButtonClick", v) : v \in Payloads} \cup {Ev("TextChanged", 1)}

NoInput == [b \in Buttons |-> NoEv]

\* a host input: for each widget, the event it raised or None; the host delivers one
\* native event at a time, so at most one widget raises an event in a pass
Inputs == {NoInput} \cup {[NoInput EXCEPT ![b] = e] : b \in Buttons, e \in Events}

Components == {"MyComponent", "StoreItem", "Store", "Mistyped", "Framed", "?"}

Roots ==
    {EmptyElement, ComponentHolder("MyComponent", "()"), ComponentHolder("StoreItem", "apple")}
    \cup {ComponentHolder("Store", p) : p \in {"on", "map_some", "map_none", "bubble"}}
    \cup {ComponentHolder("Mistyped", "()"), ComponentHolder("Framed", "()")}

NoNode == [kind |-> "None"]

Pass(op, cx, ret, touched, trace, prev_vdom, prev_state, prev_widget_seq) ==
    [op |-> op, cx |-> cx, ret |-> ret, touched |-> touched, trace |-> trace,
     prev_vdom |-> prev_vdom, prev_state |-> prev_state, prev_widget_seq |-> prev_widget_seq]

RECURSIVE Locals(_, _)
\* the local-state values of every component slot of an aggregate state
Locals(n, st) ==
    CASE n.kind = "ComponentOutputData" -> {st[2].v} \cup Locals(n.child, st[3])
      [] n.kind \in {"RowData", "ColumnData"} -> Locals(n.child, st)
      [] IsWrapperData(n) -> Locals(n.element, st)
      [] n.kind = "GroupData" ->
            UNION {Locals(n.children[i], st[i]) : i \in 1..Len(n.children)}
      [] OTHER -> {}

\* the events of the trace entries `act` made for component `who`, in order
Of(trace, act, who) ==
    LET hit == SelectSeq(trace, LAMBDA e : e.act = act /\ e.who = who)
    IN [i \in 1..Len(hit) |-> hit[i].ev]

RECURSIVE Panicked(_)
\* a build that did not return: a component function of the tree panicked
Panicked(n) ==
    CASE n.kind = "Panic" -> TRUE
      [] n.kind \in {"RowData", "ColumnData", "ComponentOutputData"} -> Panicked(n.child)
      [] IsWrapperData(n) -> Panicked(n.element)
      [] n.kind = "GroupData" -> \E i \in 1..Len(n.children) : Panicked(n.children[i])
      [] OTHER -> FALSE

\* the pass panicked: nothing of it is kept and the program runs no further pass
Halted == last.op = "panic"

Init ==
    /\ root \in Roots
    /\ mounted = FALSE
    /\ vdom = NoNode
    /\ state = DefaultState(root)
    /\ widget_seq = EmptySequence
    /\ dom_state = Unit
    /\ host_ctx = ProcessEventCtx(<<>>, NoState)
    /\ last = Pass("none", NoInput, NoEv, {}, <<>>, NoNode, Unit, EmptySequence)
    /\ pushed = [c \in Components |-> <<>>]
    /\ delivered = [c \in Components |-> <<>>]
    /\ n_init = 0

\* first mount: build from the default state, then init_tree
Mount ==
    /\ ~mounted
    /\ ~Halted
    /\ \E built \in {Build(root, state)} :
        IF Panicked(built[1])
        THEN /\ last' = Pass("panic", NoInput, NoEv, {}, <<>>, vdom, state, widget_seq)
             /\ UNCHANGED <<vdom, state, widget_seq, dom_state, mounted, n_init>>
        ELSE \E made \in {InitTree(built[1])} :
              /\ vdom' = built[1]
              /\ state' = built[2]
              /\ widget_seq' = made[1]
              /\ dom_state' = made[2]
              /\ last' = Pass("mount", NoInput, NoEv, {}, <<>>, vdom, state, widget_seq)
              /\ mounted' = TRUE
              /\ n_init' = n_init + 1
    /\ UNCHANGED <<root, host_ctx, pushed, delivered>>

\* a later pass: build with the carried state, reconcile against the stored node,
\* then replace the stored node
Rebuild ==
    /\ mounted
    /\ ~Halted
    /\ \E built \in {Build(root, state)} :
        IF Panicked(built[1])
        THEN /\ last' = Pass("panic", NoInput, NoEv, {}, <<>>, vdom, state, widget_seq)
             /\ UNCHANGED <<vdom, state, widget_seq, dom_state>>
        ELSE \E d \in {Reconcile(built[1], vdom, dom_state, widget_seq)} :
              /\ vdom' = UpdateValue(vdom, built[1])
              /\ state' = built[2]
              /\ widget_seq' = d.widget_seq
              /\ dom_state' = d.dom_state
              /\ last' = Pass("build", NoInput, NoEv, d.touched, <<>>, vdom, state, widget_seq)
    /\ UNCHANGED <<root, mounted, host_ctx, pushed, delivered, n_init>>

\* the host delivers an input: process_event on the root node
HostProcessEvent ==
    /\ mounted
    /\ ~Halted
    /\ \E cx \in Inputs :
        \E r \in {ProcessEvent(vdom, host_ctx, state, widget_seq, cx)} :
        \E trace \in {Owned(r.trace, "?")} :
           /\ \A v \in Locals(vdom, r.children_state) : v <= MaxCount
           /\ \A c \in Components : Len(pushed[c]) + Len(Of(trace, "push", c)) <= MaxPushed
           /\ state' = r.children_state
           /\ widget_seq' = r.widget_seq
           /\ host_ctx' = ProcessEventCtx(r.event_queue, r.state)
           /\ pushed' = [c \in Components |-> pushed[c] \o Of(trace, "push", c)]
           /\ delivered' = [c \in Components |-> delivered[c] \o Of(trace, "deliver", c)]
           /\ last' = Pass("process_event", cx, r.ret, {}, trace, vdom, state, widget_seq)
    /\ UNCHANGED <<root, mounted, vdom, dom_state, n_init>>

\* the host asks the root node for its next event: process_local_event
HostProcessLocalEvent ==
    /\ mounted
    /\ ~Halted
    /\ \E l \in {ProcessLocalEvent(vdom, state, widget_seq, NoInput)} :
          /\ state' = l.children_state
          /\ delivered' = [c \in Components |-> delivered[c] \o Of(l.trace, "deliver", c)]
          /\ last' = Pass("process_local_event", NoInput, l.ev, {}, l.trace,
                          vdom, state, widget_seq)
    /\ UNCHANGED <<root, mounted, vdom, widget_seq, dom_state, host_ctx, pushed, n_init>>

Next == Mount \/ Rebuild \/ HostProcessEvent \/ HostProcessLocalEvent

Spec == Init /\ [][Next]_vars

----------------------------------------------------------------------------
(* Reading the mounted tree *)

IsComponent(e) == e.kind = "ComponentHolder"

RootIs(component_fn) == IsComponent(root) /\ root.component_fn = component_fn

\* the layout node (RowData / ColumnData) under a component output node
Layout(n) == n.child

\* the nodes the layout's tuple holds, in order
Items(n) == Layout(n).child.children

\* the local-state value a component output node shows in its first label
Shown(n) == Items(n)[1].value.n

\* how often event e occurs in sequence s
Count(s, e) == Cardinality({i \in 1..Len(s) : s[i] = e})

RECURSIVE QueueOf(_, _, _)
\* the event queue of the component called name, <<>> when the tree has none
QueueOf(n, st, name) ==
    CASE n.kind = "ComponentOutputData" ->
            IF n.name = name THEN st[1] ELSE QueueOf(n.child, st[3], name)
      [] n.kind \in {"RowData", "ColumnData"} -> QueueOf(n.child, st, name)
      [] IsWrapperData(n) -> QueueOf(n.element, st, name)
      [] n.kind = "GroupData" ->
            LET found == {QueueOf(n.children[i], st[i], name) : i \in 1..Len(n.children)}
                            \ {<<>>}
            IN IF found = {} THEN <<>> ELSE CHOOSE q \in found : TRUE
      [] OTHER -> <<>>

----------------------------------------------------------------------------
(* C1: state round-trip *)

RECURSIVE RoundTrip(_, _, _)
\* every component output node of n kept its local slot from prev to next, and a
\* component that shows its local state shows the value of prev
RoundTrip(n, prev, next) ==
    CASE n.kind = "ComponentOutputData" ->
            /\ next[2] = prev[2]
            /\ n.name \in {"StoreItem", "Store"} => Shown(n) = prev[2].v
            /\ RoundTrip(n.child, prev[3], next[3])
      [] n.kind \in {"RowData", "ColumnData"} -> RoundTrip(n.child, prev, next)
      [] IsWrapperData(n) -> RoundTrip(n.element, prev, next)
      [] n.kind = "GroupData" ->
            \A i \in 1..Len(n.children) : RoundTrip(n.children[i], prev[i], next[i])
      [] OTHER -> TRUE

\* C1: the first build leaves the default in the local slot; every build reads the
\* local slot of prev_state and leaves that same value in the slot of the next state
C1_StateRoundTrip ==
    /\ (last.op = "mount" /\ IsComponent(root)) =>
            state[2] = DefaultLocal(LocalState(root.component_fn))
    /\ last.op \in {"mount", "build"} => RoundTrip(vdom, last.prev_state, state)

\* a second build in a row of a component whose local state an event callback changed
C1_Witness ==
    /\ last.op = "build"
    /\ RootIs("StoreItem")
    /\ last.prev_vdom.kind = "ComponentOutputData"
    /\ Shown(last.prev_vdom) = 1
    /\ state[2] = Local("u32", 1)
    /\ Shown(vdom) = 1

----------------------------------------------------------------------------
(* C2: delivery of queued events *)

\* every event a component queue can hold
Queueable == Events \cup {Ev("Sale", v) : v \in Payloads}

\* C2: every event pushed on a component's queue is delivered exactly once or still
\* queued: per component and event, pushes = deliveries + occurrences in the queue
C2_EveryEventDeliveredOnce ==
    \A c \in Components : \A e \in Queueable :
        Count(pushed[c], e) = Count(delivered[c], e) + Count(QueueOf(vdom, state, c), e)

----------------------------------------------------------------------------
(* C3: one process_local_event call *)

\* the queue, local state and child state of the root component before the last pass
PrevQueue == last.prev_state[1]

\* C3: process_local_event on a component returns None exactly when its queue is
\* empty, otherwise the last event of the queue, which it removes and nothing else;
\* process_event only appends to the queue, so the last event is the latest push
C3_PopsOneLifo ==
    /\ (last.op = "process_local_event" /\ IsComponent(root)) =>
        /\ (last.ret = NoEv) <=> (PrevQueue = <<>>)
        /\ PrevQueue # <<>> =>
            /\ last.ret = PrevQueue[Len(PrevQueue)]
            /\ state[1] = SubSeq(PrevQueue, 1, Len(PrevQueue) - 1)
        /\ PrevQueue = <<>> => state[1] = <<>>
        /\ state[2] = last.prev_state[2]
        /\ state[3] = last.prev_state[3]
        /\ widget_seq = last.prev_widget_seq
    /\ (last.op = "process_event" /\ IsComponent(root)) =>
        /\ Len(state[1]) >= Len(PrevQueue)
        /\ SubSeq(state[1], 1, Len(PrevQueue)) = PrevQueue
        /\ \A i \in 1..(Len(state[1]) - Len(PrevQueue)) :
                state[1][Len(PrevQueue) + i] = Of(last.trace, "push", root.component_fn)[i]

\* a call on a queue of two different events returns the one pushed last
C3_Witness ==
    /\ last.op = "process_local_event"
    /\ IsComponent(root)
    /\ Len(PrevQueue) = 2
    /\ PrevQueue[1] # PrevQueue[2]
    /\ pushed[root.component_fn] = PrevQueue
    /\ last.ret = PrevQueue[2]
    /\ state[1] = <<PrevQueue[1]>>

----------------------------------------------------------------------------
(* C4: the empty element *)

\* the widget sequences of the items of the root layout, in order
ItemWidgets(ws) == ws[1].children_seq

\* C4: building an EmptyElement gives EmptyElementData and the unit state whatever
\* the previous state, its init_tree gives the empty widget sequence, and reconciling
\* it writes no widget: beside others, they end as reconciling them alone leaves them
C4_EmptyElementIdentity ==
    /\ EmptyElement_build(EmptyElement, state) = <<EmptyElementData, Unit>>
    /\ (mounted /\ root = EmptyElement) =>
        /\ vdom = EmptyElementData
        /\ state = Unit
        /\ widget_seq = EmptySequence
        /\ last.touched = {}
    /\ (mounted /\ RootIs("Store")) =>
        /\ Items(vdom)[3] = EmptyElementData
        /\ state[3][3] = Unit
        /\ ItemWidgets(widget_seq)[3] = EmptySequence
        /\ "empty" \notin last.touched
        /\ last.op = "build" =>
            \A i \in 1..2 :
                ItemWidgets(widget_seq)[i] =
                    Reconcile(Items(vdom)[i], Items(last.prev_vdom)[i], dom_state[i],
                              ItemWidgets(last.prev_widget_seq)[i]).widget_seq

\* an EmptyElement reconciled beside a label whose widget the same pass rewrote
C4_Witness ==
    /\ mounted
    /\ RootIs("Store")
    /\ last.op = "build"
    /\ last.touched = {"total"}
    /\ ItemWidgets(widget_seq)[1] # ItemWidgets(last.prev_widget_seq)[1]
    /\ ItemWidgets(widget_seq)[3] = EmptySequence

----------------------------------------------------------------------------
(* C6, C7, C8: the event wrappers *)

\* the event of the declared sub-type in what the child raised, as a sequence
Forwarded(ev, sub) == IF ev.tag = sub THEN <<ev>> ELSE <<>>

\* what the StoreItem component raises in a pass: the click on its Buy button
RaisedByItem == Forwarded(last.cx["buy"], "ButtonClick")

\* C6: a bubble_up wrapper puts on the enclosing component's queue the events of the
\* declared sub-type its child raised, unchanged, and nothing else goes on any queue
C6_BubbleFidelity ==
    /\ (last.op = "process_event" /\ RootIs("StoreItem")) =>
        /\ state[1] = PrevQueue \o RaisedByItem
        /\ host_ctx.event_queue = <<>>
    /\ (last.op = "process_event" /\ RootIs("Store") /\ root.props = "bubble") =>
        /\ Of(last.trace, "deliver", "StoreItem") = RaisedByItem
        /\ state[1] = PrevQueue \o RaisedByItem
        /\ QueueOf(vdom, state, "StoreItem") = <<>>
        /\ host_ctx.event_queue = <<>>

\* a second click with another payload bubbles up behind the first, and a
\* TextChanged of the same widget had not been forwarded
C6_Witness ==
    /\ last.op = "process_event"
    /\ RootIs("Store")
    /\ root.props = "bubble"
    /\ PrevQueue = <<Ev("ButtonClick", 1)>>
    /\ last.cx["buy"] = Ev("ButtonClick", 2)
    /\ state[1] = <<Ev("ButtonClick", 1), Ev("ButtonClick", 2)>>

\* what a map_event closure makes of the events raised, None dropped
Mapped(callback, raised) ==
    LET out == [i \in 1..Len(raised) |-> Callback(callback, NoState, raised[i]).out]
    IN SelectSeq(out, LAMBDA e : e # NoEv)

\* C7: under map_event the enclosing component's queue receives exactly the events
\* the closure returns as Some(e), and nothing when it returns None
C7_MapSuppression ==
    /\ (RootIs("Store") /\ root.props = "map_none") =>
        /\ pushed["Store"] = <<>>
        /\ mounted => state[1] = <<>>
        /\ host_ctx.event_queue = <<>>
    /\ (last.op = "process_event" /\ RootIs("Store") /\ root.props = "map_none") =>
        /\ Mapped("drop", RaisedByItem) = <<>>
        /\ state[1] = PrevQueue
    /\ (last.op = "process_event" /\ RootIs("Store") /\ root.props = "map_some") =>
        /\ state[1] = PrevQueue \o Mapped("count_sale", RaisedByItem)
        /\ RaisedByItem # <<>> => state[1][Len(state[1])] = Ev("Sale", last.cx["buy"].val)
        /\ host_ctx.event_queue = <<>>

\* the child component raised two events and the parent's queue saw none
C7_Witness ==
    /\ last.op = "process_event"
    /\ RootIs("Store")
    /\ root.props = "map_none"
    /\ Len(delivered["StoreItem"]) = 2
    /\ RaisedByItem # <<>>
    /\ state[1] = <<>>

\* the node of the + button of the StoreItem at the root, under its on wrapper
PlusNode == Items(vdom)[2]

\* C8: under on, a child event of the declared sub-type runs the closure once on the
\* enclosing component's local state and adds nothing to its queue; any other event
\* of the child passes through unchanged and the closure does not run
C8_CallbackWrapper ==
    /\ (last.op = "process_event" /\ RootIs("StoreItem")) =>
        LET ev == last.cx["plus"]
            hit == ev.tag = "ButtonClick"
        IN /\ state[2].v = last.prev_state[2].v + (IF hit THEN 1 ELSE 0)
           /\ Of(last.trace, "callback", "increment") = Forwarded(ev, "ButtonClick")
           /\ last.cx["buy"] = NoEv => state[1] = PrevQueue
           /\ ProcessLocalEvent(PlusNode, state[3][2], widget_seq, last.cx).ev
                = (IF hit THEN NoEv ELSE ev)
    /\ (last.op = "process_event" /\ RootIs("Store") /\ root.props = "on") =>
        /\ state[2].v = last.prev_state[2].v + Len(RaisedByItem)
        /\ Of(last.trace, "callback", "increment")
                = RaisedByItem \o Forwarded(last.cx["plus"], "ButtonClick")
        /\ state[1] = <<>>
        /\ host_ctx.event_queue = <<>>

\* a click on + took the count from 1 to 2 and left the queue as it was
C8_Witness ==
    /\ last.op = "process_event"
    /\ RootIs("StoreItem")
    /\ last.cx["plus"] = Ev("ButtonClick", 1)
    /\ last.prev_state[2].v = 1
    /\ state[2].v = 2
    /\ state[1] = PrevQueue

----------------------------------------------------------------------------
(* C9, C10: Row and Column *)

\* the configuration of a flex widget: everything but its children
FlexConfig(flex) ==
    <<flex.direction, flex.cross_alignment, flex.main_alignment, flex.fill_major_axis>>

HasLayout == RootIs("StoreItem") \/ RootIs("Store")

\* only the first item of the root layout differs between the previous and the new node
OnlyFirstDiffers ==
    /\ Items(vdom)[1] # Items(last.prev_vdom)[1]
    /\ \A i \in 2..Len(Items(vdom)) : Items(vdom)[i] = Items(last.prev_vdom)[i]

\* C9: reconciling a Row or Column against the previous one leaves the flex widget's
\* configuration alone and diffs the children inside it: an item whose node did not
\* change keeps its widgets, and when only the first item's value changed only that
\* item's widget is written, and it then shows the new value
C9_FlexPassThrough ==
    (last.op = "build" /\ HasLayout) =>
        /\ Len(widget_seq) = 1
        /\ FlexConfig(widget_seq[1]) = FlexConfig(last.prev_widget_seq[1])
        /\ RootIs("Store") =>
                FlexConfig(ItemWidgets(widget_seq)[2][1])
                    = FlexConfig(ItemWidgets(last.prev_widget_seq)[2][1])
        /\ \A i \in 1..Len(Items(vdom)) :
                Items(vdom)[i] = Items(last.prev_vdom)[i] =>
                    ItemWidgets(widget_seq)[i] = ItemWidgets(last.prev_widget_seq)[i]
        /\ ItemWidgets(widget_seq)[1][1].value = Items(vdom)[1].value
        /\ OnlyFirstDiffers => last.touched = {Items(vdom)[1].id}

\* a Row of a label, a component and an empty element, reconciled after only the
\* label's value changed
C9_Witness ==
    /\ last.op = "build"
    /\ RootIs("Store")
    /\ OnlyFirstDiffers
    /\ last.touched = {"total"}
    /\ ItemWidgets(widget_seq)[1] # ItemWidgets(last.prev_widget_seq)[1]
    /\ ItemWidgets(widget_seq)[2] = ItemWidgets(last.prev_widget_seq)[2]

\* the widgets a StoreItem's tuple mounts, in order
ItemSeq(count) ==
    <<SingleWidget([id |-> "label", value |-> Text("apple", count)]),
      SingleWidget([id |-> "plus", value |-> Text("+", 0)]),
      SingleWidget([id |-> "buy", value |-> Text("Buy", 0)])>>

\* C10: init_tree of a Row (Column) gives one flex widget, Horizontal (Vertical),
\* Center, Start, not filling, whose children are the child's init_tree sequence
C10_FlexInitTree ==
    /\ (last.op = "mount" /\ RootIs("StoreItem")) =>
        /\ widget_seq = <<Flex("Vertical", "Center", "Start", FALSE, ItemSeq(0))>>
        /\ ItemWidgets(widget_seq) = InitTree(Layout(vdom).child)[1]
    /\ (last.op = "mount" /\ RootIs("Store")) =>
        /\ Len(widget_seq) = 1
        /\ FlexConfig(widget_seq[1]) = <<"Horizontal", "Center", "Start", FALSE>>
        /\ ItemWidgets(widget_seq) = InitTree(Layout(vdom).child)[1]
        /\ ItemWidgets(widget_seq) =
                <<SingleWidget([id |-> "total", value |-> Text("Sales", 0)]),
                  <<Flex("Vertical", "Center", "Start", FALSE, ItemSeq(0))>>,
                  EmptySequence>>

\* a Row mounted around a Column
C10_Witness ==
    /\ last.op = "mount"
    /\ RootIs("Store")
    /\ widget_seq[1].direction = "Horizontal"
    /\ ItemWidgets(widget_seq)[2][1].direction = "Vertical"
    /\ Len(ItemWidgets(widget_seq)[2][1].children_seq) = 3

----------------------------------------------------------------------------
(* C11: use_local_state *)

\* the types a local-state slot can have
LocalTypes == {"u16", "u32", "NoState"}

\* C11: use_local_state::<T> gives the value of the slot when the slot has type T and
\* panics for every other T, never a value in its place; the panic halts the pass and
\* nothing of it is kept; a component whose function asks for its declared LocalState
\* never panics and reads the value of its slot
C11_UseLocalState ==
    /\ \A T \in LocalTypes : \A ty \in LocalTypes : \A v \in 0..MaxCount :
            LET r == UseLocalState(CompCtx(Local(ty, v)), T)
            IN /\ r.panic <=> ty # T
               /\ ~r.panic => r.v = v
    /\ RootIs("Mistyped") =>
            /\ ~mounted
            /\ vdom = NoNode
            /\ state = DefaultState(root)
            /\ last.op \in {"none", "panic"}
    /\ (IsComponent(root) /\ Requested(root.component_fn) = LocalState(root.component_fn)) =>
            ~Halted
    /\ (last.op \in {"mount", "build"} /\ (RootIs("StoreItem") \/ RootIs("Store"))) =>
            Shown(vdom) = last.prev_state[2].v

\* the first build of a component that asks for a u16 on a u32 slot panicked
C11_Witness ==
    /\ RootIs("Mistyped")
    /\ Halted
    /\ state[2] = Local("u32", 0)
    /\ ~mounted

----------------------------------------------------------------------------
(* C12: get_component_state *)

RECURSIVE OwnSlot(_, _)
\* the local-state slot of the component a returned tree belongs to: the slot of the
\* component output reached through the elements that pass the state through
OwnSlot(tree, st) ==
    CASE tree.kind = "ComponentOutput" -> Some(st[2])
      [] tree.kind \in {"Row", "Column"} -> OwnSlot(tree.child, st)
      [] IsWrapper(tree) -> OwnSlot(tree.element, st)
      [] OTHER -> None

\* C12: the component holder hands the component function the value of the component's
\* own local-state slot of the aggregate state, also when the component output sits
\* below pass-through elements, and the default only when there is no slot
C12_ExtractsOwnSlot ==
    (mounted /\ IsComponent(root)) =>
        LET own == OwnSlot(ReturnedTree(root.component_fn, root.props), state)
        IN own.some => ComponentHolder_local_state(root, state).v = own.v.v

----------------------------------------------------------------------------
(* C13: shape stability *)

RECURSIVE ShapeOK(_, _)
\* st has the shape of the aggregate state of node n: one (event_queue, local_state,
\* child_state) slot per component output, nested as the nodes are; a tuple has one
\* entry per child; Row, Column and the event wrappers add nothing; a leaf and the
\* empty element have the unit state
ShapeOK(n, st) ==
    CASE n.kind = "ComponentOutputData" ->
            /\ Len(st) = 3
            /\ st[1] \in Seq(Queueable)
            /\ st[2].ty = n.ty
            /\ ShapeOK(n.child, st[3])
      [] n.kind \in {"RowData", "ColumnData"} -> ShapeOK(n.child, st)
      [] IsWrapperData(n) -> ShapeOK(n.element, st)
      [] n.kind = "GroupData" ->
            /\ Len(st) = Len(n.children)
            /\ \A i \in 1..Len(n.children) : ShapeOK(n.children[i], st[i])
      [] OTHER -> st = Unit

RECURSIVE Carried(_, _, _)
\* every local-state slot of next holds the value the slot at the same position of
\* prev held
Carried(n, prev, next) ==
    CASE n.kind = "ComponentOutputData" ->
            next[2] = prev[2] /\ Carried(n.child, prev[3], next[3])
      [] n.kind \in {"RowData", "ColumnData"} -> Carried(n.child, prev, next)
      [] IsWrapperData(n) -> Carried(n.element, prev, next)
      [] n.kind = "GroupData" ->
            \A i \in 1..Len(n.children) : Carried(n.children[i], prev[i], next[i])
      [] OTHER -> TRUE

RECURSIVE Skeleton(_)
\* the static structure of a node: its type and its children's, without the values
Skeleton(n) ==
    CASE n.kind = "ComponentOutputData" -> <<n.kind, n.name, n.ty, Skeleton(n.child)>>
      [] n.kind \in {"RowData", "ColumnData"} -> <<n.kind, Skeleton(n.child)>>
      [] IsWrapperData(n) -> <<n.kind, Skeleton(n.element)>>
      [] n.kind = "GroupData" ->
            <<n.kind, [i \in 1..Len(n.children) |-> Skeleton(n.children[i])]>>
      [] OTHER -> <<n.kind>>

\* the aggregate state of the StoreItem inside a Store
ItemState(st) == st[3][2]

\* C13: the state a build returns has the shape of the state it consumed, which is
\* the shape of the tree at that position (one slot per component output, none for
\* Row, Column and EmptyElement), every local-state value is at the position it had,
\* and the tree built at the position keeps its structure from build to build
C13_ShapeStability ==
    /\ last.op \in {"mount", "build"} =>
        /\ ShapeOK(vdom, last.prev_state)
        /\ ShapeOK(vdom, state)
        /\ ShapeOK(vdom, DefaultState(root))
        /\ Carried(vdom, last.prev_state, state)
    /\ last.op = "build" => Skeleton(vdom) = Skeleton(last.prev_vdom)
    /\ (mounted /\ root = EmptyElement) => state = Unit

\* a build of a component inside a Row inside a component, the two local states
\* holding different values before and after
C13_Witness ==
    /\ last.op = "build"
    /\ RootIs("Store")
    /\ last.prev_state[2].v = 1
    /\ ItemState(last.prev_state)[2].v = 2
    /\ state[2].v = 1
    /\ ItemState(state)[2].v = 2

----------------------------------------------------------------------------
(* C14: propagation order *)

\* what the wrapper a Store puts around its StoreItem does with event e, in order
OuterTransform(props, e) ==
    CASE props = "on" -> <<Entry("callback", "increment", e)>>
      [] props = "map_some" ->
            <<Entry("callback", "count_sale", e), Entry("push", "Store", Ev("Sale", e.val))>>
      [] props = "map_none" -> <<Entry("callback", "drop", e)>>
      [] OTHER -> <<Entry("push", "Store", e)>>

\* C14: in a process_event pass the child is processed before the node transforms: a
\* click on Buy is first pushed by the bubble_up inside StoreItem, then handed out by
\* the StoreItem component, and only then transformed by the wrapper the Store put
\* around it; an event a wrapper consumed is seen by no wrapper outside it: the click
\* the innermost on consumed never reaches the wrappers around it, and an event it
\* lets through stops at the first wrapper that takes it
C14_PropagationOrder ==
    /\ (last.op = "process_event" /\ RootIs("Store")) =>
        LET buy == last.cx["buy"]
            plus == last.cx["plus"]
        IN /\ buy.tag = "ButtonClick" =>
                last.trace = <<Entry("push", "StoreItem", buy),
                               Entry("deliver", "StoreItem", buy)>>
                             \o OuterTransform(root.props, buy)
           /\ plus.tag = "ButtonClick" => last.trace = <<Entry("callback", "increment", plus)>>
           /\ (buy.tag # "ButtonClick" /\ plus.tag # "ButtonClick") => last.trace = <<>>
    /\ (last.op = "process_event" /\ RootIs("Framed")) =>
        LET plus == last.cx["plus"]
        IN /\ plus.tag = "ButtonClick" => last.trace = <<Entry("callback", "increment", plus)>>
           /\ plus.tag = "TextChanged" => last.trace = <<Entry("callback", "note", plus)>>
           /\ plus = NoEv => last.trace = <<>>
           /\ state[1] = <<>>
    /\ last.op = "process_event" =>
        \A j \in 1..Len(last.trace) :
            last.trace[j].act = "deliver" =>
                \E i \in 1..(j - 1) :
                    last.trace[i] = [last.trace[j] EXCEPT !.act = "push"]

\* a click on Buy went through the bubble_up of the StoreItem, the component boundary
\* and the map_event of the Store, in that order
C14_Witness ==
    /\ last.op = "process_event"
    /\ RootIs("Store")
    /\ root.props = "map_some"
    /\ Len(last.trace) = 4
    /\ last.trace[1] = Entry("push", "StoreItem", Ev("ButtonClick", 2))
    /\ last.trace[2] = Entry("deliver", "StoreItem", Ev("ButtonClick", 2))
    /\ last.trace[3] = Entry("callback", "count_sale", Ev("ButtonClick", 2))
    /\ last.trace[4] = Entry("push", "Store", Ev("Sale", 2))

----------------------------------------------------------------------------
(* C15: process_event of Row and Column *)

RECURSIVE Strip(_)
\* the node tree without its Row and Column nodes: each replaced by its child
Strip(n) ==
    CASE n.kind \in {"RowData", "ColumnData"} -> Strip(n.child)
      [] n.kind = "ComponentOutputData" -> [n EXCEPT !.child = Strip(@)]
      [] IsWrapperData(n) -> [n EXCEPT !.element = Strip(@)]
      [] n.kind = "GroupData" ->
            [n EXCEPT !.children = [i \in 1..Len(@) |-> Strip(@[i])]]
      [] OTHER -> n

RECURSIVE HasFlex(_)
HasFlex(n) ==
    CASE n.kind \in {"RowData", "ColumnData"} -> TRUE
      [] n.kind = "ComponentOutputData" -> HasFlex(n.child)
      [] IsWrapperData(n) -> HasFlex(n.element)
      [] n.kind = "GroupData" -> \E i \in 1..Len(n.children) : HasFlex(n.children[i])
      [] OTHER -> FALSE

\* C15: process_event on a Row or Column gives what process_event on its child gives:
\* a pass over the tree returns the same event and leaves the same enclosing context,
\* the same aggregate state and the same widgets as the pass over the tree with every
\* Row and Column replaced by its child, and leaves the stored node alone
C15_FlexProcessEvent ==
    (last.op = "process_event" /\ HasFlex(last.prev_vdom)) =>
        \E direct \in {ProcessEvent(Strip(last.prev_vdom), host_ctx, last.prev_state,
                                     last.prev_widget_seq, last.cx)} :
        \E top \in {last.prev_vdom} :
           /\ last.ret = direct.ret
           /\ state = direct.children_state
           /\ host_ctx = ProcessEventCtx(direct.event_queue, direct.state)
           /\ widget_seq = direct.widget_seq
           /\ last.trace = Owned(direct.trace, "?")
           /\ vdom = last.prev_vdom
           /\ top.kind = "RowData" =>
                RowData_process_event(top, host_ctx, last.prev_state, last.prev_widget_seq,
                                      last.cx)
                    = ProcessEvent(top.child, host_ctx, last.prev_state,
                                   last.prev_widget_seq, last.cx)

\* a click reached a button through a Row at the root and changed the local state
\* of the component under the Row
C15_Witness ==
    /\ last.op = "process_event"
    /\ RootIs("Framed")
    /\ last.prev_vdom.kind = "RowData"
    /\ last.cx["plus"] = Ev("ButtonClick", 1)
    /\ last.prev_state[2].v = 1
    /\ state[2].v = 2

----------------------------------------------------------------------------
(* C16: component isolation *)

\* an enclosing context unlike any the host hands out
OtherCtx == ProcessEventCtx(<<Ev("TextChanged", 1)>>, Local("u16", 2))

\* C16: process_event on a component works on the component's own queue and local
\* state and never on the enclosing context: the context the host hands the root is
\* never changed, the pass gives the same aggregate state under any other enclosing
\* context and returns that context as it was, a descendant's event lands in the
\* queue of the component it is raised in, and a closure inside the boundary changes
\* the local state of that component and of no other
C16_ComponentIsolation ==
    /\ host_ctx = ProcessEventCtx(<<>>, NoState)
    /\ (last.op = "process_event" /\ IsComponent(root)) =>
        \E r \in {ProcessEvent(last.prev_vdom, OtherCtx, last.prev_state,
                                last.prev_widget_seq, last.cx)} :
           /\ r.event_queue = OtherCtx.event_queue
           /\ r.state = OtherCtx.state
           /\ r.children_state = state
    /\ (last.op = "process_event" /\ RootIs("StoreItem")) =>
        /\ state[1] = PrevQueue \o RaisedByItem
    /\ (last.op = "process_event" /\ RootIs("Store")) =>
        /\ ItemState(state)[1] = <<>>
        /\ ItemState(state)[2].v = ItemState(last.prev_state)[2].v
                + Len(Forwarded(last.cx["plus"], "ButtonClick"))
        /\ RaisedByItem = <<>> => (state[1] = PrevQueue /\ state[2] = last.prev_state[2])
        /\ root.props = "on" =>
                (state[1] = <<>> /\ state[2].v = last.prev_state[2].v + Len(RaisedByItem))

\* a click on + inside the StoreItem of a Store: the item's count goes from 0 to 1,
\* the Store's own count stays 1 and its queue stays empty
C16_Witness ==
    /\ last.op = "process_event"
    /\ RootIs("Store")
    /\ root.props = "on"
    /\ last.cx["plus"] = Ev("ButtonClick", 2)
    /\ last.prev_state[2].v = 1
    /\ ItemState(last.prev_state)[2].v = 0
    /\ state[2].v = 1
    /\ ItemState(state)[2].v = 1
    /\ state[1] = <<>>

----------------------------------------------------------------------------
(* C17: the event queue across a build *)

RECURSIVE QueuesEmpty(_, _)
\* the event queue slot of every component output of the aggregate state is empty
QueuesEmpty(n, st) ==
    CASE n.kind = "ComponentOutputData" -> st[1] = <<>> /\ QueuesEmpty(n.child, st[3])
      [] n.kind \in {"RowData", "ColumnData"} -> QueuesEmpty(n.child, st)
      [] IsWrapperData(n) -> QueuesEmpty(n.element, st)
      [] n.kind = "GroupData" ->
            \A i \in 1..Len(n.children) : QueuesEmpty(n.children[i], st[i])
      [] OTHER -> TRUE

\* C17: the state a build of a component output returns has an empty event queue
\* whatever the queue of prev_state held, the local-state slot of prev_state, and as
\* child state the next state of the child's build on the child slot of prev_state
C17_BuildEmptiesQueue ==
    /\ last.op \in {"mount", "build"} =>
        /\ QueuesEmpty(vdom, state)
        /\ Carried(vdom, last.prev_state, state)
    /\ (last.op \in {"mount", "build"} /\ vdom.kind = "ComponentOutputData") =>
        LET element_tree == ComponentFn(root.component_fn, CompCtx(last.prev_state[2]),
                                        root.props)
        IN /\ state[1] = <<>>
           /\ state[2] = last.prev_state[2]
           /\ state[3] = Build(element_tree.child, last.prev_state[3])[2]

\* a build on a state whose queue held two events
C17_Witness ==
    /\ last.op = "build"
    /\ RootIs("StoreItem")
    /\ Len(PrevQueue) = 2
    /\ last.prev_state[2].v = 1
    /\ state[1] = <<>>
    /\ state[2].v = 1

----------------------------------------------------------------------------
(* C18: a component boundary has no widget *)

\* the node under another component name
Renamed(n, name) == [n EXCEPT !.name = name]

\* the StoreItem node inside a Store, under the wrapper the Store put around it
ItemNode(n) == Items(n)[2].element

\* C18: init_tree of a component output node gives the widget sequence of its
\* child's init_tree, and reconciling it against the previous node leaves the widgets
\* reconciling its child against the previous node's child leaves, writing the same
\* widgets; the component name plays no part: nodes under other names give the same
C18_BoundaryHasNoWidget ==
    /\ (last.op = "mount" /\ vdom.kind = "ComponentOutputData") =>
        /\ widget_seq = InitTree(vdom.child)[1]
        /\ dom_state = InitTree(vdom.child)[2]
        /\ InitTree(Renamed(vdom, "Other")) = <<widget_seq, dom_state>>
    /\ (last.op = "mount" /\ RootIs("Store")) =>
        ItemWidgets(widget_seq)[2] = InitTree(ItemNode(vdom).child)[1]
    /\ (last.op = "build" /\ vdom.kind = "ComponentOutputData") =>
        \E d \in {Reconcile(vdom.child, last.prev_vdom.child, dom_state,
                             last.prev_widget_seq)} :
           /\ widget_seq = d.widget_seq
           /\ dom_state = d.dom_state
           /\ last.touched = d.touched
           /\ Reconcile(Renamed(vdom, "New"), Renamed(last.prev_vdom, "Old"), dom_state,
                        last.prev_widget_seq) = d

\* a reconcile of a component whose label changed: the label's widget is rewritten
C18_Witness ==
    /\ last.op = "build"
    /\ RootIs("StoreItem")
    /\ vdom.kind = "ComponentOutputData"
    /\ last.touched = {"label"}
    /\ widget_seq # last.prev_widget_seq
    /\ ItemWidgets(widget_seq)[1][1].value = Text("apple", 2)

----------------------------------------------------------------------------
(* C19: building a component holder *)

\* what building the tree the component function returns gives, the function called
\* with the holder's props and the local state of prev_state
BuiltByFn(holder, prev_state) ==
    Build(ComponentFn(holder.component_fn, CompCtx(prev_state[2]), holder.props), prev_state)

\* C19: the build of a component holder gives the node and the next state that
\* building the tree its function returns, called with the holder's props and the
\* local state of prev_state, gives on the same prev_state; the node of a component
\* output named N around child c carries N and the built c: for MyComponent, the
\* name "MyComponent" around EmptyElementData, with the default u16 in the local slot
C19_HolderBuild ==
    /\ (last.op \in {"mount", "build"} /\ vdom.kind = "ComponentOutputData") =>
        /\ <<vdom, state>> = BuiltByFn(root, last.prev_state)
        /\ vdom.name = root.component_fn
    /\ (last.op \in {"mount", "build"} /\ RootIs("Store")) =>
        /\ <<ItemNode(vdom), ItemState(state)>>
                = BuiltByFn(ComponentHolder("StoreItem", "apple"), ItemState(last.prev_state))
        /\ ItemNode(vdom).name = "StoreItem"
    /\ (mounted /\ RootIs("MyComponent")) =>
        /\ vdom = ComponentOutputData("MyComponent", "u16", EmptyElementData)
        /\ vdom.child = EmptyElement_build(EmptyElement, Unit)[1]
        /\ state = <<<<>>, Local("u16", 0), Unit>>

\* a build of a Store whose StoreItem holds 2: the holder inside gave the StoreItem
\* node showing 2
C19_Witness ==
    /\ last.op = "build"
    /\ RootIs("Store")
    /\ vdom.name = "Store"
    /\ ItemState(last.prev_state)[2].v = 2
    /\ ItemNode(vdom).name = "StoreItem"
    /\ Shown(ItemNode(vdom)) = 2

----------------------------------------------------------------------------
(* C20: lifecycle ordering *)

\* the step that runs init_tree: the first mount, on no stored node, from the build
\* of the root on the default state
InitTreeStep ==
    n_init' # n_init =>
        /\ ~mounted /\ mounted'
        /\ n_init = 0 /\ n_init' = 1
        /\ vdom = NoNode
        /\ state = DefaultState(root)
        /\ <<vdom', state'>> = Build(root, state)
        /\ <<widget_seq', dom_state'>> = InitTree(vdom')

\* a later pass: a new node is built on the state as it is, reconciled against the
\* stored node on the widget sequence as it is, and then stored in its place
ReconcileStep ==
    last'.op = "build" =>
        /\ mounted /\ n_init = 1 /\ n_init' = 1
        /\ <<vdom', state'>> = Build(root, state)
        /\ widget_seq' = Reconcile(vdom', vdom, dom_state, widget_seq).widget_seq
        /\ last'.prev_vdom = vdom /\ last'.prev_state = state

\* an event pass leaves the stored node and init_tree's count alone
EventStep ==
    last'.op \in {"process_event", "process_local_event"} =>
        (mounted /\ vdom' = vdom /\ n_init' = n_init)

\* C20: init_tree runs exactly once, at first mount and before any reconcile; every
\* later build pass builds a new node from the state the last pass left, reconciles
\* it against the node stored by the pass before on the same widget sequence, and
\* replaces the stored node by the new one
C20_Lifecycle ==
    /\ [](n_init = (IF mounted THEN 1 ELSE 0))
    /\ [][InitTreeStep]_vars
    /\ [][ReconcileStep]_vars
    /\ [][EventStep]_vars

\* a second reconcile pass: the node showing 2 replaced the node showing 1, which
\* had replaced the mounted node
C20_Witness ==
    /\ last.op = "build"
    /\ RootIs("StoreItem")
    /\ n_init = 1
    /\ Shown(last.prev_vdom) = 1
    /\ Shown(vdom) = 2
    /\ vdom # last.prev_vdom
    /\ widget_seq # last.prev_widget_seq
    /\ state[2].v = 2

----------------------------------------------------------------------------
(* C21: the default event methods *)

\* a bubble_up wrapper put around the empty element's node
BubbledEmpty ==
    [kind |-> "WithBubbleEventData", element |-> EmptyElementData,
     callback |-> "none", sub |-> "ButtonClick"]

\* C21: EmptyElementData keeps the default event methods and never emits: whatever
\* the input, its process_local_event returns None and its process_event leaves the
\* enclosing queue and local state, the children state and the widgets as they were;
\* so it is at the root, beside other items inside a component (on that component's
\* queue and state), under a component and under a wrapper that would forward
C21_DefaultsNeverEmit ==
    /\ (mounted /\ root = EmptyElement) =>
        /\ state = Unit
        /\ widget_seq = EmptySequence
        /\ host_ctx = ProcessEventCtx(<<>>, NoState)
        /\ last.ret = NoEv
        /\ last.trace = <<>>
        /\ \A cx \in Inputs :
              /\ ProcessLocalEvent(vdom, state, widget_seq, cx).ev = NoEv
              /\ \E r \in {ProcessEvent(BubbledEmpty, OtherCtx, Unit, widget_seq, cx)} :
                    /\ r.event_queue = OtherCtx.event_queue
                    /\ r.state = OtherCtx.state
                    /\ r.trace = <<>>
    /\ (mounted /\ RootIs("Store")) =>
        \E ctx \in {ProcessEventCtx(state[1], state[2])} :
        \E r \in {ProcessEvent(Items(vdom)[3], ctx, state[3][3], widget_seq, last.cx)} :
           /\ Items(vdom)[3] = EmptyElementData
           /\ r.event_queue = ctx.event_queue
           /\ r.state = ctx.state
           /\ r.children_state = state[3][3]
           /\ r.widget_seq = widget_seq
           /\ r.ret = NoEv
           /\ r.trace = <<>>
           /\ ProcessLocalEvent(Items(vdom)[3], state[3][3], widget_seq, last.cx).ev = NoEv
    /\ (mounted /\ RootIs("MyComponent")) =>
        /\ state = <<<<>>, Local("u16", 0), Unit>>
        /\ last.ret = NoEv
        /\ pushed["MyComponent"] = <<>>

\* a click delivered to a mounted empty element changed nothing
C21_Witness ==
    /\ root = EmptyElement
    /\ last.op = "process_event"
    /\ last.cx["plus"] = Ev("ButtonClick", 1)
    /\ vdom = EmptyElementData
    /\ state = last.prev_state
    /\ widget_seq = last.prev_widget_seq
    /\ host_ctx.event_queue = <<>>

====
